---- MODULE Spec2Model ----
(***************************************************************************)
(* State-machine model of the XCOM-like tactical layer (package game):     *)
(* grid, line of sight, cover, fog of war, flood-fill pathing, hit / crit  *)
(* / graze computation, shot resolution and the tactical scene's event     *)
(* handlers.  Coordinates are pairs <<col, row>>.  Python's None is the    *)
(* empty tuple <<>> for an optional coordinate and 0 for an optional       *)
(* action count.                                                           *)
(***************************************************************************)
EXTENDS Integers, Sequences, FiniteSets, TLC

VARIABLES
    blocked,          \* Grid.blocked
    player,           \* Player: col, row, actions_remaining, _move_queue, _move_from, _move_to, _move_t
    selected,         \* TacticalScene._selected
    range_costs,      \* TacticalScene._range_costs
    range_parents,    \* TacticalScene._range_parents
    planned_target,   \* TacticalScene._planned_target (<<>> is None)
    planned_path,     \* TacticalScene._planned_path
    planned_actions,  \* TacticalScene._planned_actions (0 is None)
    obstacle_edit,    \* TacticalScene._obstacle_edit
    enemy_edit,       \* TacticalScene._enemy_edit
    enemies,          \* TacticalScene._enemies: coordinate -> hp
    visible,          \* TacticalScene._visible
    explored,         \* TacticalScene._explored
    crashed,          \* an exception left handle_event and ended main()
    seen,             \* history: union of every set _recompute_visibility assigned to _visible
    call,             \* the function application under study: name and arguments
    ret,              \* what that application returned
    draws             \* history: the requests made to the random source, in order

vars == <<blocked, player, selected, range_costs, range_parents, planned_target,
          planned_path, planned_actions, obstacle_edit, enemy_edit, enemies,
          visible, explored, crashed, seen, call, ret, draws>>

sceneVars == <<blocked, player, selected, range_costs, range_parents, planned_target,
               planned_path, planned_actions, obstacle_edit, enemy_edit, enemies,
               visible, explored, crashed, seen>>

(***************************************************************************)
(* Bounds of the model.                                                    *)
(***************************************************************************)
\* The grid of the combat functions' arguments and the most obstacles on it.
CombatCols == 3

CombatRows == 2

MaxCombatBlocked == 1

\* The grid of resolve_shot's arguments, smaller because each shot is tried with
\* every answer of the random source.
ShotCols == 3

ShotRows == 1

\* The scaled world of the tactical scene, and the most obstacles and enemies
\* the editors may leave on it.
SceneCols == 5

SceneRows == 2

MaxObstacles == 1

MaxEnemies == 1

\* The most FixedClock.tick() calls in a row.
MaxTicks == 3

\* The most rounds one consume_round call is asked to take.
MaxRounds == 8

\* The grid of compute_tile_cover's arguments and the most obstacles on it.
CoverCols == 3

CoverRows == 3

MaxCoverBlocked == 4

\* The grid of los_clear's and bresenham_line's arguments and the most obstacles
\* on it; the end points also range over the ring of tiles just outside it.
LosCols == 3

LosRows == 2

MaxLosBlocked == 2

\* The tiles a flood_fill's passable predicate may accept, the walls among
\* them, and the largest max_cost tried.
PathCols == 3

PathRows == 2

MaxWalls == 2

MaxCost == 4

(***************************************************************************)
(* Small helpers.                                                          *)
(***************************************************************************)
Abs(x) == IF x < 0 THEN 0 - x ELSE x

Max(a, b) == IF a >= b THEN a ELSE b

Min(a, b) == IF a <= b THEN a ELSE b

EmptyMap == [x \in {} |-> x]

NoCoord == <<>>

\* A Grid object: cols, rows and the blocked set.
Grid(cols, rows, B) == [cols |-> cols, rows |-> rows, blocked |-> B]

Tiles(g) == (0 .. g.cols - 1) \X (0 .. g.rows - 1)

PathTiles == (0 .. PathCols - 1) \X (0 .. PathRows - 1)

RECURSIVE Reverse(_)
Reverse(s) == IF s = <<>> THEN <<>> ELSE Append(Reverse(Tail(s)), Head(s))

Adjacent4(a, b) == Abs(a[1] - b[1]) + Abs(a[2] - b[2]) = 1

(***************************************************************************)
(* game/world/grid.py                                                      *)
(***************************************************************************)
in_bounds(g, col, row) == 0 <= col /\ col < g.cols /\ 0 <= row /\ row < g.rows

is_blocked(g, col, row) == <<col, row>> \in g.blocked

is_passable(g, col, row) == in_bounds(g, col, row) /\ <<col, row>> \notin g.blocked

\* The blocked set after grid.toggle_obstacle(col, row).
toggle_obstacle(g, col, row) ==
    IF ~in_bounds(g, col, row) THEN g.blocked
    ELSE IF <<col, row>> \in g.blocked THEN g.blocked \ {<<col, row>>}
    ELSE g.blocked \cup {<<col, row>>}

(***************************************************************************)
(* game/world/pathing.py                                                   *)
(***************************************************************************)
NEIGHBOURS == << <<1, 0>>, <<-1, 0>>, <<0, 1>>, <<0, -1>> >>

\* The for-loop over the four neighbours of the popped tile (c, r).
RECURSIVE neighbours_loop(_, _, _, _, _)
neighbours_loop(cur, base, i, st, passable) ==
    IF i > Len(NEIGHBOURS) THEN st
    ELSE LET n == <<cur[1] + NEIGHBOURS[i][1], cur[2] + NEIGHBOURS[i][2]>>
         IN  IF n \notin passable \/ n \in DOMAIN st.costs
             THEN neighbours_loop(cur, base, i + 1, st, passable)
             ELSE neighbours_loop(cur, base, i + 1,
                      [q |-> Append(st.q, n),
                       costs |-> st.costs @@ (n :> base + 1),
                       parents |-> st.parents @@ (n :> cur)],
                      passable)

\* The while-loop over the queue.
RECURSIVE bfs_loop(_, _, _)
bfs_loop(st, passable, max_cost) ==
    IF st.q = <<>> THEN [costs |-> st.costs, parents |-> st.parents]
    ELSE LET cur == Head(st.q)
             base == st.costs[cur]
             rest == [st EXCEPT !.q = Tail(st.q)]
         IN  IF base >= max_cost
             THEN bfs_loop(rest, passable, max_cost)
             ELSE bfs_loop(neighbours_loop(cur, base, 1, rest, passable), passable, max_cost)

\* A plausible slip: the frontier test is "base > max_cost", one ring too far.
flood_fill_expands_frontier(start, passable, max_cost) ==
    bfs_loop([q |-> <<start>>, costs |-> (start :> 0), parents |-> EmptyMap],
             passable, max_cost + 1)

\* flood_fill(start, passable, max_cost) -> (costs, parents); the predicate
\* passable is the set of coordinates it accepts.
flood_fill(start, passable, max_cost) ==
    bfs_loop([q |-> <<start>>, costs |-> (start :> 0), parents |-> EmptyMap],
             passable, max_cost)

RECURSIVE walk_parents(_, _, _)
walk_parents(cur, parents, path) ==
    IF cur \in DOMAIN parents
    THEN walk_parents(parents[cur], parents, Append(path, cur))
    ELSE Append(path, cur)

\* A plausible slip: the list is returned without path.reverse().
reconstruct_path_unreversed(end, parents) == walk_parents(end, parents, <<>>)

reconstruct_path(end, parents) == Reverse(walk_parents(end, parents, <<>>))

(***************************************************************************)
(* game/world/los.py                                                       *)
(***************************************************************************)
\* The while-loop of the generator; acc is what has been yielded so far.
\* A plausible slip: the second test is an elif, so a step never moves along
\* both axes.
RECURSIVE bresenham_loop_one_axis(_, _, _, _, _, _, _, _, _, _)
bresenham_loop_one_axis(x0, y0, x1, y1, dx, dy, sx, sy, err, acc) ==
    LET out == Append(acc, <<x0, y0>>)
    IN  IF x0 = x1 /\ y0 = y1 THEN out
        ELSE IF 2 * err >= dy
             THEN bresenham_loop_one_axis(x0 + sx, y0, x1, y1, dx, dy, sx, sy, err + dy, out)
             ELSE bresenham_loop_one_axis(x0, y0 + sy, x1, y1, dx, dy, sx, sy, err + dx, out)

RECURSIVE bresenham_loop(_, _, _, _, _, _, _, _, _, _)
bresenham_loop(x0, y0, x1, y1, dx, dy, sx, sy, err, acc) ==
    LET out == Append(acc, <<x0, y0>>)
    IN  IF x0 = x1 /\ y0 = y1 THEN out
        ELSE LET e2 == 2 * err
                 stepx == e2 >= dy
                 err1 == IF stepx THEN err + dy ELSE err
                 nx == IF stepx THEN x0 + sx ELSE x0
                 stepy == e2 <= dx
                 err2 == IF stepy THEN err1 + dx ELSE err1
                 ny == IF stepy THEN y0 + sy ELSE y0
             IN  bresenham_loop(nx, ny, x1, y1, dx, dy, sx, sy, err2, out)

bresenham_line(a, b) ==
    LET dx == Abs(b[1] - a[1])
        dy == 0 - Abs(b[2] - a[2])
        sx == IF a[1] < b[1] THEN 1 ELSE -1
        sy == IF a[2] < b[2] THEN 1 ELSE -1
    IN  bresenham_loop(a[1], a[2], b[1], b[2], dx, dy, sx, sy, dx + dy, <<>>)

\* A plausible slip: passability is tested before the destination test.
RECURSIVE los_scan_checks_destination(_, _, _, _)
los_scan_checks_destination(g, line, i, b) ==
    IF i > Len(line) THEN TRUE
    ELSE IF ~is_passable(g, line[i][1], line[i][2]) THEN FALSE
    ELSE IF line[i] = b THEN TRUE
    ELSE los_scan_checks_destination(g, line, i + 1, b)

\* The for-loop of los_clear over the tiles after the source tile.
RECURSIVE los_scan(_, _, _, _)
los_scan(g, line, i, b) ==
    IF i > Len(line) THEN TRUE
    ELSE IF line[i] = b THEN TRUE
    ELSE IF ~is_passable(g, line[i][1], line[i][2]) THEN FALSE
    ELSE los_scan(g, line, i + 1, b)

los_clear(g, a, b) == los_scan(g, bresenham_line(a, b), 2, b)

facing_side(from, to) ==
    LET dx == to[1] - from[1]
        dy == to[2] - from[2]
    IN  IF Abs(dx) >= Abs(dy)
        THEN (IF dx < 0 THEN "W" ELSE "E")
        ELSE (IF dy < 0 THEN "N" ELSE "S")

(***************************************************************************)
(* game/world/cover.py                                                     *)
(***************************************************************************)
SIDES == {"N", "E", "S", "W"}

DIRS == [side \in SIDES |->
            CASE side = "N" -> <<0, -1>>
              [] side = "E" -> <<1, 0>>
              [] side = "S" -> <<0, 1>>
              [] side = "W" -> <<-1, 0>>]

DIAGS == [side \in SIDES |->
            CASE side = "N" -> {<<-1, -1>>, <<1, -1>>}
              [] side = "E" -> {<<1, -1>>, <<1, 1>>}
              [] side = "S" -> {<<-1, 1>>, <<1, 1>>}
              [] side = "W" -> {<<-1, -1>>, <<-1, 1>>}]

\* A plausible slip: the diagonal test comes before the cardinal test.
compute_tile_cover_half_first(g, col, row, oob_is_full) ==
    [side \in SIDES |->
        LET ac == col + DIRS[side][1]
            ar == row + DIRS[side][2]
            adj_in == in_bounds(g, ac, ar)
        IN  IF \E d \in DIAGS[side] :
                    in_bounds(g, col + d[1], row + d[2]) /\ is_blocked(g, col + d[1], row + d[2])
            THEN "half"
            ELSE IF (adj_in /\ is_blocked(g, ac, ar)) \/ (~adj_in /\ oob_is_full)
            THEN "full"
            ELSE "none"]

compute_tile_cover(g, col, row, oob_is_full) ==
    [side \in SIDES |->
        LET ac == col + DIRS[side][1]
            ar == row + DIRS[side][2]
            adj_in == in_bounds(g, ac, ar)
        IN  IF (adj_in /\ is_blocked(g, ac, ar)) \/ (~adj_in /\ oob_is_full)
            THEN "full"
            ELSE IF \E d \in DIAGS[side] :
                        in_bounds(g, col + d[1], row + d[2]) /\ is_blocked(g, col + d[1], row + d[2])
            THEN "half"
            ELSE "none"]

(***************************************************************************)
(* game/world/fog.py                                                       *)
(***************************************************************************)
tiles_in_radius(origin, radius) ==
    {c \in (origin[1] - radius .. origin[1] + radius) \X (origin[2] - radius .. origin[2] + radius) :
        Max(Abs(c[1] - origin[1]), Abs(c[2] - origin[2])) <= radius}

\* The tiles of the radius that are in bounds and in line of sight.
compute_visible(g, origin, radius) ==
    {c \in Tiles(g) : c \in tiles_in_radius(origin, radius) /\ los_clear(g, origin, c)}

(***************************************************************************)
(* game/settings.py (combat)                                               *)
(***************************************************************************)
BASE_AIM_PERCENT == 65

HIT_CLAMP_MIN == 5

HIT_CLAMP_MAX == 95

COVER_HALF_PENALTY == -20

COVER_FULL_PENALTY == -40

FLANK_BONUS == 30

\* (min_inclusive, max_exclusive, modifier) over the euclidean distance in tiles;
\* the limits are whole numbers written as floats in the source.
RANGE_BANDS == << <<0, 2, 10>>, <<2, 8, 0>>, <<8, 12, -10>>, <<12, 999, -25>> >>

CRIT_HALF_COVER_PENALTY == -10

CRIT_FULL_COVER_PENALTY == -25

CRIT_FLANK_BONUS == 20

CRIT_POINT_BLANK_BONUS == 15

GRAZE_BAND_PERCENT == 20

\* 0.5 as the fraction <<numerator, denominator>>.
GRAZE_MULTIPLIER == <<1, 2>>

\* Optional arguments: None, or Some(x).
None == <<>>

Some(x) == <<x>>

(***************************************************************************)
(* game/combat/weapons.py                                                  *)
(***************************************************************************)
\* WeaponSpec(key, name) with every other field at its dataclass default.
DEFAULT_SPEC ==
    [key |-> "default", aim_bonus |-> 0, base_crit |-> 10, range_bands |-> None,
     dmg_min |-> 3, dmg_max |-> 5, crit_bonus_damage |-> 2,
     graze_multiplier |-> GRAZE_MULTIPLIER, mag_size |-> 5,
     crit_point_blank_bonus |-> CRIT_POINT_BLANK_BONUS]

ASSAULT_RIFLE ==
    [key |-> "ar", aim_bonus |-> 0, base_crit |-> 12, range_bands |-> Some(RANGE_BANDS),
     dmg_min |-> 3, dmg_max |-> 5, crit_bonus_damage |-> 2,
     graze_multiplier |-> GRAZE_MULTIPLIER, mag_size |-> 5,
     crit_point_blank_bonus |-> CRIT_POINT_BLANK_BONUS]

SHOTGUN ==
    [key |-> "sg", aim_bonus |-> -5, base_crit |-> 20,
     range_bands |-> Some(<< <<0, 2, 20>>, <<2, 6, 5>>, <<6, 9, -20>>, <<9, 999, -45>> >>),
     dmg_min |-> 4, dmg_max |-> 6, crit_bonus_damage |-> 3,
     graze_multiplier |-> GRAZE_MULTIPLIER, mag_size |-> 4,
     crit_point_blank_bonus |-> CRIT_POINT_BLANK_BONUS + 10]

\* A spec outside the catalog, as a caller may construct one: poor aim, high
\* crit, damage that can roll 0.
SNUB_SPEC ==
    [DEFAULT_SPEC EXCEPT !.key = "snub", !.aim_bonus = -70, !.base_crit = 50,
                         !.dmg_min = 0, !.dmg_max = 2]

Weapon(spec, ammo) == [spec |-> spec, ammo |-> ammo]

\* Weapon.can_fire()
can_fire(w) == w.ammo > 0

\* A plausible slip: the subtraction is not floored at zero.
consume_round_unfloored(w, n) == [w EXCEPT !.ammo = w.ammo - n]

\* Weapon.consume_round(n): the weapon it leaves.
consume_round(w, n) == [w EXCEPT !.ammo = Max(0, w.ammo - n)]

\* Weapon.reload_full(): the weapon it leaves.
reload_full(w) == [w EXCEPT !.ammo = w.spec.mag_size]

WEAPON_INDEX == [key \in {"assault_rifle", "shotgun"} |->
                    IF key = "assault_rifle" THEN ASSAULT_RIFLE ELSE SHOTGUN]

\* make_weapon(key): WEAPON_INDEX.get(key, ASSAULT_RIFLE) with a full magazine.
make_weapon(key) ==
    LET spec == IF key \in DOMAIN WEAPON_INDEX THEN WEAPON_INDEX[key] ELSE ASSAULT_RIFLE
    IN  Weapon(spec, spec.mag_size)

(***************************************************************************)
(* game/combat/hit.py                                                      *)
(* A distance is carried as its square d2 = dx*dx + dy*dy: for whole        *)
(* limits, lo <= hypot(dx, dy) < hi exactly when lo*lo <= d2 < hi*hi.       *)
(***************************************************************************)
RECURSIVE range_modifier_from(_, _, _)
range_modifier_from(d2, range_bands, i) ==
    IF i > Len(range_bands) THEN 0
    ELSE IF range_bands[i][1] * range_bands[i][1] <= d2 /\ d2 < range_bands[i][2] * range_bands[i][2]
    THEN range_bands[i][3]
    ELSE range_modifier_from(d2, range_bands, i + 1)

range_modifier(d2, range_bands) == range_modifier_from(d2, range_bands, 1)

\* A plausible slip: only the upper limit is applied.
clamp_upper_only(p) == Min(HIT_CLAMP_MAX, p)

clamp(p) == Max(HIT_CLAMP_MIN, Min(HIT_CLAMP_MAX, p))

\* compute_hit(grid, shooter, target, *, base_aim, range_bands) -> HitBreakdown
compute_hit(g, shooter, target, base_aim, range_bands) ==
    LET base == IF base_aim = None THEN BASE_AIM_PERCENT ELSE base_aim[1]
        dx == target[1] - shooter[1]
        dy == target[2] - shooter[2]
        d2 == dx * dx + dy * dy
        los == los_clear(g, shooter, target)
        cv == compute_tile_cover(g, target[1], target[2], TRUE)
        side == facing_side(shooter, target)
        cover_type == cv[side]
        flanked == cover_type = "none"
        rb == IF range_bands # None THEN range_bands[1] ELSE RANGE_BANDS
        rng == range_modifier(d2, rb)
        range_terms == IF rng # 0 THEN << <<"range", rng>> >> ELSE <<>>
        cover_terms ==
            IF flanked
            THEN (IF FLANK_BONUS # 0 THEN << <<"flank", FLANK_BONUS>> >> ELSE <<>>)
            ELSE IF cover_type = "half" /\ COVER_HALF_PENALTY # 0
            THEN << <<"half cover", COVER_HALF_PENALTY>> >>
            ELSE IF cover_type = "full" /\ COVER_FULL_PENALTY # 0
            THEN << <<"full cover", COVER_FULL_PENALTY>> >>
            ELSE <<>>
        cover_mod == IF cover_terms = <<>> THEN 0 ELSE cover_terms[1][2]
        total == base + rng + cover_mod
    IN  IF ~los
        THEN [base |-> base, terms |-> <<>>, total |-> 0, los |-> FALSE, flanked |-> FALSE,
              cover_type |-> "none", distance2 |-> d2]
        ELSE [base |-> base, terms |-> range_terms \o cover_terms, total |-> clamp(total), los |-> TRUE,
              flanked |-> flanked, cover_type |-> cover_type, distance2 |-> d2]

(***************************************************************************)
(* game/combat/resolve.py                                                  *)
(***************************************************************************)
\* Python's round() of the fraction n/d (d > 0): to nearest, ties to even.
round_half_even(n, d) ==
    LET q == n \div d
        r == n % d
    IN  IF 2 * r < d THEN q
        ELSE IF 2 * r > d THEN q + 1
        ELSE IF q % 2 = 0 THEN q ELSE q + 1

\* A plausible slip: the cap at the hit chance is left out.
crit_for_context_uncapped(hit_total, flanked, cover_facing, d2, wpn) ==
    LET crit == wpn.spec.base_crit
                + (IF flanked THEN CRIT_FLANK_BONUS ELSE 0)
                + (IF cover_facing = "half" THEN CRIT_HALF_COVER_PENALTY
                   ELSE IF cover_facing = "full" THEN CRIT_FULL_COVER_PENALTY ELSE 0)
                + (IF d2 < 4 THEN wpn.spec.crit_point_blank_bonus ELSE 0)
    IN  Max(0, Min(100, crit))

crit_for_context(hit_total, flanked, cover_facing, d2, wpn) ==
    LET crit == wpn.spec.base_crit
                + (IF flanked THEN CRIT_FLANK_BONUS ELSE 0)
                + (IF cover_facing = "half" THEN CRIT_HALF_COVER_PENALTY
                   ELSE IF cover_facing = "full" THEN CRIT_FULL_COVER_PENALTY ELSE 0)
                + (IF d2 < 4 THEN wpn.spec.crit_point_blank_bonus ELSE 0)
    IN  Min(hit_total, Max(0, Min(100, crit)))

graze_damage(base, mult) == Max(1, round_half_even(base * mult[1], mult[2]))

\* A plausible slip: the band is not limited to the room left above the hit chance.
graze_band_unlimited(total) == Max(0, GRAZE_BAND_PERCENT)

graze_band_for(total) == Max(0, Min(100 - total, GRAZE_BAND_PERCENT))

\* A plausible slip: the early return on a blocked line of sight is missing.
preview_probabilities_ignores_los(g, shooter, target, weapon) ==
    LET spec == weapon.spec
        base_aim == BASE_AIM_PERCENT + spec.aim_bonus
        bands == IF spec.range_bands # None /\ spec.range_bands[1] # <<>>
                 THEN spec.range_bands[1] ELSE RANGE_BANDS
        bd == compute_hit(g, shooter, target, Some(base_aim), Some(bands))
    IN  [los |-> bd.los, hit_chance |-> bd.total,
         crit_chance |-> crit_for_context(bd.total, bd.flanked, bd.cover_type, bd.distance2, weapon),
         graze_band |-> graze_band_for(bd.total),
         flanked |-> bd.flanked, cover_facing |-> bd.cover_type, distance2 |-> bd.distance2,
         dmg_base_min |-> spec.dmg_min, dmg_base_max |-> spec.dmg_max,
         dmg_graze_min |-> graze_damage(spec.dmg_min, spec.graze_multiplier),
         dmg_graze_max |-> graze_damage(spec.dmg_max, spec.graze_multiplier),
         dmg_crit_min |-> spec.dmg_min + spec.crit_bonus_damage,
         dmg_crit_max |-> spec.dmg_max + spec.crit_bonus_damage]

\* preview_probabilities(grid, shooter, target, *, weapon) -> ShotPreview
preview_probabilities(g, shooter, target, weapon) ==
    LET spec == weapon.spec
        base_aim == BASE_AIM_PERCENT + spec.aim_bonus
        bands == IF spec.range_bands # None /\ spec.range_bands[1] # <<>>
                 THEN spec.range_bands[1] ELSE RANGE_BANDS
        bd == compute_hit(g, shooter, target, Some(base_aim), Some(bands))
        dmg == [dmg_base_min |-> spec.dmg_min, dmg_base_max |-> spec.dmg_max,
                dmg_graze_min |-> graze_damage(spec.dmg_min, spec.graze_multiplier),
                dmg_graze_max |-> graze_damage(spec.dmg_max, spec.graze_multiplier),
                dmg_crit_min |-> spec.dmg_min + spec.crit_bonus_damage,
                dmg_crit_max |-> spec.dmg_max + spec.crit_bonus_damage]
    IN  IF ~bd.los
        THEN [los |-> FALSE, hit_chance |-> 0, crit_chance |-> 0, graze_band |-> 0,
              flanked |-> FALSE, cover_facing |-> "full", distance2 |-> bd.distance2] @@ dmg
        ELSE [los |-> TRUE, hit_chance |-> bd.total,
              crit_chance |-> crit_for_context(bd.total, bd.flanked, bd.cover_type, bd.distance2, weapon),
              graze_band |-> graze_band_for(bd.total),
              flanked |-> bd.flanked, cover_facing |-> bd.cover_type,
              distance2 |-> bd.distance2] @@ dmg

\* A plausible slip: the hit test comes before the crit test.
outcome_for_hit_first(roll, base, pv, weapon) ==
    LET crit_th == pv.crit_chance
        hit_th == pv.hit_chance
        graze_th == Min(100, pv.hit_chance + pv.graze_band)
    IN  IF roll <= hit_th THEN <<"hit", base>>
        ELSE IF roll <= crit_th THEN <<"crit", base + weapon.spec.crit_bonus_damage>>
        ELSE IF roll <= graze_th THEN <<"graze", graze_damage(base, weapon.spec.graze_multiplier)>>
        ELSE <<"miss", 0>>

\* A plausible slip: the graze threshold leaves out the hit chance.
outcome_for_graze_band_only(roll, base, pv, weapon) ==
    LET crit_th == pv.crit_chance
        hit_th == pv.hit_chance
        graze_th == Min(100, pv.graze_band)
    IN  IF roll <= crit_th THEN <<"crit", base + weapon.spec.crit_bonus_damage>>
        ELSE IF roll <= hit_th THEN <<"hit", base>>
        ELSE IF roll <= graze_th THEN <<"graze", graze_damage(base, weapon.spec.graze_multiplier)>>
        ELSE <<"miss", 0>>

\* The if / elif chain of resolve_shot on the roll: <<outcome, damage>>.
outcome_for(roll, base, pv, weapon) ==
    LET crit_th == pv.crit_chance
        hit_th == pv.hit_chance
        graze_th == Min(100, pv.hit_chance + pv.graze_band)
    IN  IF roll <= crit_th THEN <<"crit", base + weapon.spec.crit_bonus_damage>>
        ELSE IF roll <= hit_th THEN <<"hit", base>>
        ELSE IF roll <= graze_th THEN <<"graze", graze_damage(base, weapon.spec.graze_multiplier)>>
        ELSE <<"miss", 0>>

\* A plausible slip: the damage is rolled only when the shot is not a miss.
resolve_from_preview_lazy_damage(pv, rng, weapon) ==
    LET roll == rng[1]
        base == rng[2]
        oc == outcome_for(roll, base, pv, weapon)
    IN  IF ~pv.los
        THEN [result |-> [outcome |-> "blocked", roll |-> 0, hit_chance |-> 0, crit_chance |-> 0,
                          graze_band |-> 0, damage |-> 0, flanked |-> FALSE,
                          cover_facing |-> "full", distance2 |-> pv.distance2],
              requests |-> <<>>]
        ELSE [result |-> [outcome |-> oc[1], roll |-> roll, hit_chance |-> pv.hit_chance,
                          crit_chance |-> pv.crit_chance, graze_band |-> pv.graze_band,
                          damage |-> oc[2], flanked |-> pv.flanked,
                          cover_facing |-> pv.cover_facing, distance2 |-> pv.distance2],
              requests |-> IF oc[1] = "miss" THEN << <<1, 100, roll>> >>
                           ELSE << <<1, 100, roll>>,
                                   <<weapon.spec.dmg_min, weapon.spec.dmg_max, base>> >>]

\* The body of resolve_shot once pv = preview_probabilities(...) is in hand.  rng
\* holds what the random source answers to the first and to the second randint
\* call; the result comes with the randint requests made, in order, as
\* <<lo, hi, answer>>.
resolve_from_preview(pv, rng, weapon) ==
    LET roll == rng[1]
        base == rng[2]
        oc == outcome_for(roll, base, pv, weapon)
    IN  IF ~pv.los
        THEN [result |-> [outcome |-> "blocked", roll |-> 0, hit_chance |-> 0, crit_chance |-> 0,
                          graze_band |-> 0, damage |-> 0, flanked |-> FALSE,
                          cover_facing |-> "full", distance2 |-> pv.distance2],
              requests |-> <<>>]
        ELSE [result |-> [outcome |-> oc[1], roll |-> roll, hit_chance |-> pv.hit_chance,
                          crit_chance |-> pv.crit_chance, graze_band |-> pv.graze_band,
                          damage |-> oc[2], flanked |-> pv.flanked,
                          cover_facing |-> pv.cover_facing, distance2 |-> pv.distance2],
              requests |-> << <<1, 100, roll>>,
                              <<weapon.spec.dmg_min, weapon.spec.dmg_max, base>> >>]

\* resolve_shot(grid, shooter, target, rng, *, weapon) -> ShotResult
resolve_shot(g, shooter, target, rng, weapon) ==
    resolve_from_preview(preview_probabilities(g, shooter, target, weapon), rng, weapon)

(***************************************************************************)
(* Applying the pure functions: one application per behaviour, its         *)
(* arguments in call and its result in ret.                                *)
(***************************************************************************)
NoCall == [fn |-> "none"]

NoRet == [none |-> TRUE]

RECURSIVE SubsetsUpTo(_, _)
SubsetsUpTo(S, k) ==
    IF k = 0 THEN {{}}
    ELSE LET P == SubsetsUpTo(S, k - 1)
         IN  P \cup {p \cup {x} : p \in P, x \in S}

\* The scene is not running while a pure function is studied.
SceneParked ==
    /\ player = [col |-> 0, row |-> 0, actions_remaining |-> 0, move_queue |-> <<>>,
                 move_from |-> NoCoord, move_to |-> NoCoord, move_t |-> 0]
    /\ selected = FALSE
    /\ range_costs = EmptyMap
    /\ range_parents = EmptyMap
    /\ planned_target = NoCoord
    /\ planned_path = <<>>
    /\ planned_actions = 0
    /\ obstacle_edit = FALSE
    /\ enemy_edit = FALSE
    /\ enemies = EmptyMap
    /\ visible = {}
    /\ explored = {}
    /\ crashed = FALSE
    /\ seen = {}

\* The arguments are drawn before the call; the call fills in its name.
InitPath ==
    /\ SceneParked
    /\ blocked = {}
    /\ call \in {[fn |-> "none", start |-> start, passable |-> PathTiles \ walls] :
                    start \in PathTiles, walls \in SubsetsUpTo(PathTiles, MaxWalls)}
    /\ ret = NoRet
    /\ draws = <<>>

CallFloodFill ==
    /\ call.fn = "none"
    /\ \E max_cost \in 0 .. MaxCost :
          /\ call' = [fn |-> "flood_fill", start |-> call.start,
                      passable |-> call.passable, max_cost |-> max_cost]
          /\ ret' = flood_fill(call.start, call.passable, max_cost)
    /\ UNCHANGED <<sceneVars, draws>>

CallReconstructPath ==
    /\ call.fn = "flood_fill"
    /\ \E end \in PathTiles :
          /\ call' = [fn |-> "reconstruct_path", end |-> end, parents |-> ret.parents,
                      start |-> call.start, costs |-> ret.costs]
          /\ ret' = [path |-> reconstruct_path(end, ret.parents)]
    /\ UNCHANGED <<sceneVars, draws>>

NextPath == CallFloodFill \/ CallReconstructPath

SpecPath == InitPath /\ [][NextPath]_vars

(***************************************************************************)
(* Applying compute_hit and preview_probabilities (SpecHit) and            *)
(* resolve_shot (SpecShot).                                                *)
(***************************************************************************)
CombatTiles == (0 .. CombatCols - 1) \X (0 .. CombatRows - 1)

CombatGrids == {Grid(CombatCols, CombatRows, B) : B \in SubsetsUpTo(CombatTiles, MaxCombatBlocked)}

ShotTiles == (0 .. ShotCols - 1) \X (0 .. ShotRows - 1)

ShotGrids == {Grid(ShotCols, ShotRows, B) : B \in SubsetsUpTo(ShotTiles, MaxCombatBlocked)}

\* base_aim arguments: omitted, below the clamp window, above it.
AimInputs == {None, Some(-10), Some(120)}

\* range_bands arguments: omitted, an empty list, the shotgun's list.
BandInputs == {None, Some(<<>>), SHOTGUN.range_bands}

WeaponSpecs == {DEFAULT_SPEC, ASSAULT_RIFLE, SHOTGUN, SNUB_SPEC}

\* The specs shots are resolved with.
ShotSpecs == {DEFAULT_SPEC, SHOTGUN, SNUB_SPEC}

InitHit ==
    /\ SceneParked
    /\ blocked = {}
    /\ call \in {[fn |-> "none", grid |-> g, shooter |-> shooter, target |-> target] :
                    g \in CombatGrids, shooter \in CombatTiles, target \in CombatTiles}
    /\ ret = NoRet
    /\ draws = <<>>

CallComputeHit ==
    /\ call.fn = "none"
    /\ \E base_aim \in AimInputs, range_bands \in BandInputs :
          /\ call' = [fn |-> "compute_hit", grid |-> call.grid, shooter |-> call.shooter,
                      target |-> call.target, base_aim |-> base_aim, range_bands |-> range_bands]
          /\ ret' = compute_hit(call.grid, call.shooter, call.target, base_aim, range_bands)
    /\ UNCHANGED <<sceneVars, draws>>

CallPreview ==
    /\ call.fn = "none"
    /\ \E spec \in WeaponSpecs :
          /\ call' = [fn |-> "preview_probabilities", grid |-> call.grid, shooter |-> call.shooter,
                      target |-> call.target, weapon |-> Weapon(spec, spec.mag_size)]
          /\ ret' = preview_probabilities(call.grid, call.shooter, call.target,
                                          Weapon(spec, spec.mag_size))
    /\ UNCHANGED <<sceneVars, draws>>

NextHit == CallComputeHit \/ CallPreview

SpecHit == InitHit /\ [][NextHit]_vars

InitShot ==
    /\ SceneParked
    /\ blocked = {}
    /\ call \in {[fn |-> "none", grid |-> g, shooter |-> shooter, target |-> target] :
                    g \in ShotGrids, shooter \in ShotTiles, target \in ShotTiles}
    /\ ret = NoRet
    /\ draws = <<>>

\* One application of resolve_shot; the random source may answer anything in
\* the range it is asked for.
CallResolveShot ==
    /\ call.fn = "none"
    /\ \E spec \in ShotSpecs :
          \E pv \in {preview_probabilities(call.grid, call.shooter, call.target,
                                           Weapon(spec, spec.mag_size))} :
             \E roll \in 1 .. 100, base \in spec.dmg_min .. spec.dmg_max :
                LET weapon == Weapon(spec, spec.mag_size)
                    r == resolve_from_preview(pv, <<roll, base>>, weapon)
                IN  /\ call' = [fn |-> "resolve_shot", grid |-> call.grid,
                                shooter |-> call.shooter, target |-> call.target,
                                weapon |-> weapon, pv |-> pv]
                    /\ ret' = r.result
                    /\ draws' = r.requests
    /\ UNCHANGED sceneVars

NextShot == CallResolveShot

SpecShot == InitShot /\ [][NextShot]_vars

(***************************************************************************)
(* game/core/clock.py and its calls (SpecClock).  Time is counted in thirds *)
(* of a millisecond, which makes FIXED_DT = 1/60 s a whole number, so the   *)
(* accumulator is exact; alpha is accumulator / FIXED_DT.  call holds the   *)
(* last call, the milliseconds pygame's clock answered and the number of    *)
(* calls so far; ret holds the accumulator the call left and its steps.     *)
(***************************************************************************)
\* settings.FIXED_DT = 1.0 / 60.0 s
FIXED_DT == 50

MAX_STEPS == 5

\* settings.DT_CLAMP = 0.25 s
DT_CLAMP == 750

\* The while-loop of tick.
RECURSIVE tick_loop(_, _)
tick_loop(accumulator, steps) ==
    IF accumulator >= FIXED_DT /\ steps < MAX_STEPS
    THEN tick_loop(accumulator - FIXED_DT, steps + 1)
    ELSE [accumulator |-> accumulator, steps |-> steps]

\* FixedClock.tick() when pygame's clock answers ms milliseconds: the
\* accumulator it leaves and the steps it returns.
tick(accumulator, ms) ==
    tick_loop(accumulator + Min(3 * ms, DT_CLAMP), 0)

\* What pygame's clock may answer, in milliseconds: nothing, less than a step,
\* about one step, a few steps, more than MAX_STEPS steps, more than DT_CLAMP.
FrameTimes == {0, 7, 17, 40, 120, 400}

InitClock ==
    /\ SceneParked
    /\ blocked = {}
    /\ call = [fn |-> "FixedClock", ticks |-> 0]
    /\ ret = [accumulator |-> 0, steps |-> 0]
    /\ draws = <<>>

CallTick(ms) ==
    /\ call.ticks < MaxTicks
    /\ call' = [fn |-> "tick", ms |-> ms, before |-> ret.accumulator, ticks |-> call.ticks + 1]
    /\ ret' = tick(ret.accumulator, ms)
    /\ UNCHANGED <<sceneVars, draws>>

NextClock == \E ms \in FrameTimes : CallTick(ms)

SpecClock == InitClock /\ [][NextClock]_vars

(***************************************************************************)
(* A Weapon from make_weapon and the calls made on it (SpecWeapon): call    *)
(* holds the last call with the weapon as it was before it, ret the weapon  *)
(* as the call left it and the value returned.                             *)
(***************************************************************************)
WeaponKeys == {"assault_rifle", "shotgun", "pistol"}

InitWeapon ==
    /\ SceneParked
    /\ blocked = {}
    /\ \E key \in WeaponKeys :
          /\ call = [fn |-> "make_weapon", key |-> key]
          /\ ret = [weapon |-> make_weapon(key), value |-> "None"]
    /\ draws = <<>>

CallConsumeRound(n) ==
    /\ call' = [fn |-> "consume_round", before |-> ret.weapon, n |-> n]
    /\ ret' = [weapon |-> consume_round(ret.weapon, n), value |-> "None"]
    /\ UNCHANGED <<sceneVars, draws>>

CallReloadFull ==
    /\ call' = [fn |-> "reload_full", before |-> ret.weapon]
    /\ ret' = [weapon |-> reload_full(ret.weapon), value |-> "None"]
    /\ UNCHANGED <<sceneVars, draws>>

CallCanFire ==
    /\ call' = [fn |-> "can_fire", before |-> ret.weapon]
    /\ ret' = [weapon |-> ret.weapon, value |-> can_fire(ret.weapon)]
    /\ UNCHANGED <<sceneVars, draws>>

NextWeapon ==
    \/ \E n \in 0 .. MaxRounds : CallConsumeRound(n)
    \/ CallReloadFull
    \/ CallCanFire

SpecWeapon == InitWeapon /\ [][NextWeapon]_vars

(***************************************************************************)
(* Applying compute_tile_cover (SpecCover).                                *)
(***************************************************************************)
CoverTiles == (0 .. CoverCols - 1) \X (0 .. CoverRows - 1)

CoverGrids == {Grid(CoverCols, CoverRows, B) : B \in SubsetsUpTo(CoverTiles, MaxCoverBlocked)}

InitCover ==
    /\ SceneParked
    /\ blocked = {}
    /\ call \in {[fn |-> "none", grid |-> g, tile |-> t, oob_is_full |-> o] :
                    g \in CoverGrids, t \in CoverTiles, o \in BOOLEAN}
    /\ ret = NoRet
    /\ draws = <<>>

CallComputeTileCover ==
    /\ call.fn = "none"
    /\ call' = [call EXCEPT !.fn = "compute_tile_cover"]
    /\ ret' = compute_tile_cover(call.grid, call.tile[1], call.tile[2], call.oob_is_full)
    /\ UNCHANGED <<sceneVars, draws>>

NextCover == CallComputeTileCover

SpecCover == InitCover /\ [][NextCover]_vars

(***************************************************************************)
(* Applying los_clear and bresenham_line (SpecLos).                        *)
(***************************************************************************)
LosTiles == (0 .. LosCols - 1) \X (0 .. LosRows - 1)

LosGrids == {Grid(LosCols, LosRows, B) : B \in SubsetsUpTo(LosTiles, MaxLosBlocked)}

\* End points: the tiles of the grid and the ring of coordinates around it.
LosCoords == (-1 .. LosCols) \X (-1 .. LosRows)

InitLos ==
    /\ SceneParked
    /\ blocked = {}
    /\ call \in {[fn |-> "none", grid |-> g, a |-> a, b |-> b] :
                    g \in LosGrids, a \in LosCoords, b \in LosCoords}
    /\ ret = NoRet
    /\ draws = <<>>

CallLosClear ==
    /\ call.fn = "none"
    /\ call' = [call EXCEPT !.fn = "los_clear"]
    /\ ret' = [clear |-> los_clear(call.grid, call.a, call.b)]
    /\ UNCHANGED <<sceneVars, draws>>

CallBresenhamLine ==
    /\ call.fn = "none"
    /\ call' = [call EXCEPT !.fn = "bresenham_line"]
    /\ ret' = [line |-> bresenham_line(call.a, call.b)]
    /\ UNCHANGED <<sceneVars, draws>>

NextLos == CallLosClear \/ CallBresenhamLine

SpecLos == InitLos /\ [][NextLos]_vars

(***************************************************************************)
(* game/settings.py (scene), game/entities/player.py, enemy.py              *)
(* Movement progress _move_t is counted in sixtieths of a tile: one update *)
(* with dt = FIXED_DT = 1/60 adds PLAYER_MOVE_SPEED_TPS sixtieths, and the *)
(* player arrives when the sum reaches 60 (that is, 1.0).                  *)
(***************************************************************************)
MOVE_RANGE_1 == 8

MOVE_RANGE_2 == 16

ACTIONS_PER_TURN == 2

FIRE_ACTION_COST == 1

PLAYER_MOVE_SPEED_TPS == 8

FIXED_HZ == 60

SIGHT_RADIUS_TILES == 12

ENEMY_HP == 6

\* The literals of _seed_demo_obstacles.
SEED_OFFSET == 4

SEED_LENGTH == 10

is_moving(p) == p.move_to # NoCoord

\* A plausible slip: the next tile is read from the queue but not removed.
prime_next_segment_keeps_queue(p) ==
    IF p.move_queue = <<>>
    THEN [p EXCEPT !.move_from = NoCoord, !.move_to = NoCoord, !.move_t = 0]
    ELSE [p EXCEPT !.move_from = <<p.col, p.row>>, !.move_to = Head(p.move_queue),
                   !.move_t = 0]

prime_next_segment(p) ==
    IF p.move_queue = <<>>
    THEN [p EXCEPT !.move_from = NoCoord, !.move_to = NoCoord, !.move_t = 0]
    ELSE [p EXCEPT !.move_from = <<p.col, p.row>>, !.move_to = Head(p.move_queue),
                   !.move_queue = Tail(p.move_queue), !.move_t = 0]

start_move(p, path) ==
    IF Len(path) <= 1 THEN p
    ELSE prime_next_segment([p EXCEPT !.move_queue = Tail(path)])

\* Player.update(FIXED_DT)
player_update(p) ==
    IF p.move_to = NoCoord \/ p.move_from = NoCoord THEN p
    ELSE LET t == p.move_t + PLAYER_MOVE_SPEED_TPS
         IN  IF t >= FIXED_HZ
             THEN prime_next_segment([p EXCEPT !.col = p.move_to[1], !.row = p.move_to[2],
                                               !.move_from = NoCoord, !.move_to = NoCoord,
                                               !.move_t = 0])
             ELSE [p EXCEPT !.move_t = t]

(***************************************************************************)
(* game/scenes/tactical.py                                                 *)
(* The world is scaled down to SceneCols x SceneRows tiles and the player  *)
(* starts on its corner tile; the camera is left out, so a mouse event     *)
(* carries the tile under the cursor.                                      *)
(***************************************************************************)
PlayerStart == <<0, 0>>

SceneGrid(B) == Grid(SceneCols, SceneRows, B)

SceneTiles == Tiles(SceneGrid({}))

\* The tiles a mouse event may carry: the player's starting tile and the two
\* tiles after it in its row.
MouseTiles == {<<0, 0>>, <<1, 0>>, <<2, 0>>} \cap SceneTiles

Pos(p) == <<p.col, p.row>>

NoPlan == [target |-> NoCoord, path |-> <<>>, actions |-> 0]

CurPlan == [target |-> planned_target, path |-> planned_path, actions |-> planned_actions]

\* The tiles the closure passable of _compute_ranges accepts.
passable_tiles(g, ens) ==
    {t \in Tiles(g) : is_passable(g, t[1], t[2]) /\ t \notin DOMAIN ens}

\* _compute_ranges: the new maps, and whether the plan is cleared.
compute_ranges(g, p, ens, target, force) ==
    IF p.actions_remaining <= 0
    THEN [costs |-> (Pos(p) :> 0), parents |-> EmptyMap, clear |-> FALSE]
    ELSE LET max_cost == IF p.actions_remaining = 1 THEN MOVE_RANGE_1 ELSE MOVE_RANGE_2
             ff == flood_fill(Pos(p), passable_tiles(g, ens), max_cost)
         IN  [costs |-> ff.costs, parents |-> ff.parents,
              clear |-> force /\ target # NoCoord /\ target \notin DOMAIN ff.costs]

\* _actions_for_cost(self._range_costs.get(target))
actions_for_cost(costs, target) ==
    IF target \notin DOMAIN costs THEN 0
    ELSE IF costs[target] <= MOVE_RANGE_1 THEN 1
    ELSE IF costs[target] <= MOVE_RANGE_2 THEN 2
    ELSE 0

\* _try_set_plan: the plan it leaves.
try_set_plan(g, ens, costs, parents, target) ==
    IF ~is_passable(g, target[1], target[2]) \/ target \in DOMAIN ens THEN NoPlan
    ELSE IF actions_for_cost(costs, target) = 0 THEN NoPlan
    ELSE LET path == reconstruct_path(target, parents)
         IN  IF path = <<>> THEN NoPlan
             ELSE [target |-> target, path |-> path,
                   actions |-> actions_for_cost(costs, target)]

\* _confirm_plan: the player it leaves.
confirm_plan(p, pl) ==
    IF pl.path = <<>> \/ pl.actions = 0 THEN p
    ELSE IF pl.actions > p.actions_remaining THEN p
    ELSE start_move([p EXCEPT !.actions_remaining = @ - pl.actions], pl.path)

\* compute_visible(self.grid, origin, SIGHT_RADIUS_TILES) of the scene, tabulated
\* once over the scene's obstacle sets and origins as an explicit function.
VisibleFrom ==
    [k \in SubsetsUpTo(SceneTiles, MaxObstacles) \X SceneTiles |->
        compute_visible(SceneGrid(k[1]), k[2], SIGHT_RADIUS_TILES)] @@ EmptyMap

\* A plausible slip: the explored set is replaced instead of extended.
recompute_visibility_forgets(g, p, expl) ==
    LET v == VisibleFrom[<<g.blocked, Pos(p)>>]
    IN  [visible |-> v, explored |-> v]

\* A plausible slip: the visible set is extended instead of replaced.
recompute_visibility_accumulates(g, p, expl) ==
    LET v == VisibleFrom[<<g.blocked, Pos(p)>>]
    IN  [visible |-> expl \cup v, explored |-> expl \cup v]

\* _recompute_visibility: the new _visible and _explored.
recompute_visibility(g, p, expl) ==
    LET v == VisibleFrom[<<g.blocked, Pos(p)>>]
    IN  [visible |-> v, explored |-> expl \cup v]

\* _seed_demo_obstacles: the blocked set after its loop.
seed_demo_obstacles(g, p, ens) ==
    g.blocked \cup
    {t \in {<<p.col + SEED_OFFSET + i, p.row + (i % 2)>> : i \in 0 .. SEED_LENGTH - 1} :
        in_bounds(g, t[1], t[2]) /\ t # Pos(p) /\ t \notin DOMAIN ens}

SetPlan(pl) ==
    /\ planned_target' = pl.target
    /\ planned_path' = pl.path
    /\ planned_actions' = pl.actions

SetRanges(rc) ==
    /\ range_costs' = rc.costs
    /\ range_parents' = rc.parents
    /\ SetPlan(IF rc.clear THEN NoPlan ELSE CurPlan)

SetFog(f) ==
    /\ visible' = f.visible
    /\ explored' = f.explored
    /\ seen' = seen \cup f.visible

planVars == <<planned_target, planned_path, planned_actions>>

rangeVars == <<range_costs, range_parents>>

fogVars == <<visible, explored, seen>>

harnessVars == <<call, ret, draws>>

\* TacticalScene.__post_init__ on the scaled world.
Init ==
    /\ blocked = {}
    /\ player = [col |-> PlayerStart[1], row |-> PlayerStart[2],
                 actions_remaining |-> ACTIONS_PER_TURN, move_queue |-> <<>>,
                 move_from |-> NoCoord, move_to |-> NoCoord, move_t |-> 0]
    /\ selected = FALSE
    /\ range_costs = EmptyMap
    /\ range_parents = EmptyMap
    /\ planned_target = NoCoord
    /\ planned_path = <<>>
    /\ planned_actions = 0
    /\ obstacle_edit = FALSE
    /\ enemy_edit = FALSE
    /\ enemies = EmptyMap
    /\ \E f \in {recompute_visibility(SceneGrid({}), [col |-> PlayerStart[1], row |-> PlayerStart[2]], {})} :
          visible = f.visible /\ explored = f.explored /\ seen = f.visible
    /\ crashed = FALSE
    /\ call = NoCall
    /\ ret = NoRet
    /\ draws = <<>>

\* K_o without Shift.
KeyO ==
    /\ ~crashed
    /\ obstacle_edit' = ~obstacle_edit
    /\ enemy_edit' = IF ~obstacle_edit THEN FALSE ELSE enemy_edit
    /\ UNCHANGED <<blocked, player, selected, rangeVars, planVars, enemies, fogVars,
                   crashed, harnessVars>>

\* K_o with Shift: _seed_demo_obstacles.
KeyShiftO ==
    /\ ~crashed
    /\ \E B \in {seed_demo_obstacles(SceneGrid(blocked), player, enemies)} :
          /\ Cardinality(B) <= MaxObstacles
          /\ blocked' = B
          /\ IF selected
             THEN \E rc \in {compute_ranges(SceneGrid(B), player, enemies, planned_target, TRUE)} :
                     SetRanges(rc)
             ELSE UNCHANGED <<rangeVars, planVars>>
          /\ SetFog(recompute_visibility(SceneGrid(B), player, explored))
    /\ UNCHANGED <<player, selected, obstacle_edit, enemy_edit, enemies, crashed, harnessVars>>

\* K_e
KeyE ==
    /\ ~crashed
    /\ enemy_edit' = ~enemy_edit
    /\ obstacle_edit' = IF ~enemy_edit THEN FALSE ELSE obstacle_edit
    /\ UNCHANGED <<blocked, player, selected, rangeVars, planVars, enemies, fogVars,
                   crashed, harnessVars>>

\* K_n: a new turn.
KeyN ==
    /\ ~crashed
    /\ \E p \in {[player EXCEPT !.actions_remaining = ACTIONS_PER_TURN]} :
          /\ player' = p
          /\ IF selected
             THEN \E rc \in {compute_ranges(SceneGrid(blocked), p, enemies, planned_target, TRUE)} :
                     SetRanges(rc)
             ELSE UNCHANGED <<rangeVars, planVars>>
    /\ UNCHANGED <<blocked, selected, obstacle_edit, enemy_edit, enemies, fogVars,
                   crashed, harnessVars>>

\* A plausible slip: the confirm key is not refused while the player moves.
KeyConfirm_while_moving ==
    /\ ~crashed
    /\ player' = IF selected /\ planned_path # <<>>
                 THEN confirm_plan(player, CurPlan)
                 ELSE player
    /\ UNCHANGED <<blocked, selected, rangeVars, planVars, obstacle_edit, enemy_edit,
                   enemies, fogVars, crashed, harnessVars>>

\* K_RETURN or K_SPACE: confirm the plan.
KeyConfirm ==
    /\ ~crashed
    /\ player' = IF selected /\ planned_path # <<>> /\ ~is_moving(player)
                 THEN confirm_plan(player, CurPlan)
                 ELSE player
    /\ UNCHANGED <<blocked, selected, rangeVars, planVars, obstacle_edit, enemy_edit,
                   enemies, fogVars, crashed, harnessVars>>

\* K_f with the cursor on tile: resolve_shot is called without its keyword-only
\* argument weapon, so the call raises TypeError, which nothing catches.
KeyF(tile) ==
    /\ ~crashed
    /\ crashed' = (tile \in DOMAIN enemies /\ tile \in visible)
    /\ UNCHANGED <<blocked, player, selected, rangeVars, planVars, obstacle_edit,
                   enemy_edit, enemies, fogVars, harnessVars>>

\* Right mouse button: cancel the plan.
RightClick ==
    /\ ~crashed
    /\ SetPlan(NoPlan)
    /\ UNCHANGED <<blocked, player, selected, rangeVars, obstacle_edit, enemy_edit,
                   enemies, fogVars, crashed, harnessVars>>

\* Left click in obstacle edit mode.
ObstacleClick(tile) ==
    IF tile # Pos(player) /\ tile \notin DOMAIN enemies
    THEN \E B \in {toggle_obstacle(SceneGrid(blocked), tile[1], tile[2])} :
            /\ Cardinality(B) <= MaxObstacles
            /\ blocked' = B
            /\ IF selected
               THEN \E rc \in {compute_ranges(SceneGrid(B), player, enemies, planned_target, TRUE)} :
                       SetRanges(rc)
               ELSE UNCHANGED <<rangeVars, planVars>>
            /\ SetFog(recompute_visibility(SceneGrid(B), player, explored))
            /\ UNCHANGED <<player, selected, enemies>>
    ELSE UNCHANGED <<blocked, player, selected, rangeVars, planVars, enemies, fogVars>>

\* Left click in enemy edit mode.
EnemyClick(tile) ==
    IF tile # Pos(player) /\ is_passable(SceneGrid(blocked), tile[1], tile[2])
    THEN /\ enemies' = IF tile \in DOMAIN enemies
                       THEN [k \in DOMAIN enemies \ {tile} |-> enemies[k]]
                       ELSE enemies @@ (tile :> ENEMY_HP)
         /\ Cardinality(DOMAIN enemies') <= MaxEnemies
         /\ UNCHANGED <<blocked, player, selected, rangeVars, planVars, fogVars>>
    ELSE UNCHANGED <<blocked, player, selected, rangeVars, planVars, enemies, fogVars>>

\* Left click outside the edit modes: selection and planning.
SelectClick(tile) ==
    IF tile = Pos(player)
    THEN IF ~selected
         THEN /\ selected' = TRUE
              /\ \E rc \in {compute_ranges(SceneGrid(blocked), player, enemies, planned_target, FALSE)} :
                    SetRanges(rc)
              /\ UNCHANGED <<blocked, player, enemies, fogVars>>
         ELSE /\ selected' = FALSE
              /\ range_costs' = EmptyMap
              /\ range_parents' = EmptyMap
              /\ SetPlan(NoPlan)
              /\ UNCHANGED <<blocked, player, enemies, fogVars>>
    ELSE IF selected /\ range_costs # EmptyMap
         THEN /\ SetPlan(try_set_plan(SceneGrid(blocked), enemies, range_costs, range_parents, tile))
              /\ UNCHANGED <<blocked, player, selected, rangeVars, enemies, fogVars>>
         ELSE /\ selected' = FALSE
              /\ SetPlan(NoPlan)
              /\ range_costs' = EmptyMap
              /\ range_parents' = EmptyMap
              /\ UNCHANGED <<blocked, player, enemies, fogVars>>

\* Left mouse button with the cursor on tile.
LeftClick(tile) ==
    /\ ~crashed
    /\ ~is_moving(player)
    /\ IF obstacle_edit THEN ObstacleClick(tile)
       ELSE IF enemy_edit THEN EnemyClick(tile)
       ELSE SelectClick(tile)
    /\ UNCHANGED <<obstacle_edit, enemy_edit, crashed, harnessVars>>

\* TacticalScene.update(FIXED_DT)
Update ==
    /\ ~crashed
    /\ \E p \in {player_update(player)} :
          /\ player' = p
          /\ IF is_moving(player) /\ ~is_moving(p)
             THEN IF selected
                  THEN \E rc \in {compute_ranges(SceneGrid(blocked), p, enemies, NoCoord, FALSE)} :
                          /\ range_costs' = rc.costs
                          /\ range_parents' = rc.parents
                          /\ SetPlan(NoPlan)
                  ELSE SetPlan(NoPlan) /\ UNCHANGED rangeVars
             ELSE UNCHANGED <<rangeVars, planVars>>
          /\ IF Pos(p) # Pos(player) \/ is_moving(player)
             THEN SetFog(recompute_visibility(SceneGrid(blocked), p, explored))
             ELSE UNCHANGED fogVars
    /\ UNCHANGED <<blocked, selected, obstacle_edit, enemy_edit, enemies, crashed, harnessVars>>

Next ==
    \/ KeyO
    \/ KeyShiftO
    \/ KeyE
    \/ KeyN
    \/ KeyConfirm
    \/ RightClick
    \/ Update
    \/ \E tile \in MouseTiles : KeyF(tile)
    \/ \E tile \in MouseTiles : LeftClick(tile)

Spec == Init /\ [][Next]_vars

\* The part of update that advances the player: self.player.update(dt).
UpdateMovesPlayer == ~crashed /\ player' = player_update(player)

\* The main loop calls update(FIXED_DT) for every fixed step the clock hands
\* out, so the update of a moving player is not postponed forever.
SpecMove == Spec /\ WF_player(UpdateMovesPlayer)

(***************************************************************************)
(* Claims about compute_hit and preview_probabilities (SpecHit).           *)
(***************************************************************************)
RECURSIVE SumTerms(_)
SumTerms(terms) == IF terms = <<>> THEN 0 ELSE Head(terms)[2] + SumTerms(Tail(terms))

\* C1: the total of compute_hit lies in HIT_CLAMP_MIN .. HIT_CLAMP_MAX whenever
\* line of sight from shooter to target is clear, and is exactly 0 when it is not.
C1_HitTotalClamped ==
    call.fn = "compute_hit" =>
        IF los_clear(call.grid, call.shooter, call.target)
        THEN HIT_CLAMP_MIN <= ret.total /\ ret.total <= HIT_CLAMP_MAX
        ELSE ret.total = 0

\* A clear shot whose base and modifiers add up to less than the lower limit.
C1_Witness ==
    /\ call.fn = "compute_hit"
    /\ los_clear(call.grid, call.shooter, call.target)
    /\ ret.base + SumTerms(ret.terms) < HIT_CLAMP_MIN
    /\ ret.total = HIT_CLAMP_MIN

\* C2: in every preview, with or without line of sight and for any weapon spec,
\* crit_chance <= hit_chance.
C2_CritAtMostHit ==
    call.fn = "preview_probabilities" => ret.crit_chance <= ret.hit_chance

\* A clear shot with a weapon whose base crit alone exceeds the hit chance.
C2_Witness ==
    /\ call.fn = "preview_probabilities"
    /\ ret.los
    /\ call.weapon.spec.base_crit > ret.hit_chance
    /\ ret.crit_chance = ret.hit_chance

\* C3 as stated: in every preview graze_band = max(0, min(100 - hit_chance,
\* GRAZE_BAND_PERCENT)), hit_chance being that preview's own field.
C3_GrazeBandEveryPreview ==
    call.fn = "preview_probabilities" =>
        ret.graze_band = Max(0, Min(100 - ret.hit_chance, GRAZE_BAND_PERCENT))

\* C3 amended: the graze formula holds in every preview that has line of sight;
\* a preview without line of sight has hit_chance 0 and graze_band 0.
C3_GrazeBandWithLos ==
    call.fn = "preview_probabilities" =>
        IF ret.los
        THEN ret.graze_band = Max(0, Min(100 - ret.hit_chance, GRAZE_BAND_PERCENT))
        ELSE ret.hit_chance = 0 /\ ret.graze_band = 0

\* A clear shot whose hit chance leaves less room than the configured band.
C3_Witness ==
    /\ call.fn = "preview_probabilities"
    /\ ret.los
    /\ 100 - ret.hit_chance < GRAZE_BAND_PERCENT
    /\ ret.graze_band = 100 - ret.hit_chance

(***************************************************************************)
(* Claims about resolve_shot (SpecShot).                                   *)
(***************************************************************************)
\* C4: with line of sight the roll r in 1..100 decides the outcome in the order
\* r <= crit_chance: crit; else r <= hit_chance: hit; else r <= hit_chance +
\* graze_band: graze; else miss.  The intervals are nested, a miss deals 0, a
\* hit deals the rolled base and a crit the rolled base plus crit_bonus_damage.
C4_OutcomeThresholds ==
    (call.fn = "resolve_shot" /\ los_clear(call.grid, call.shooter, call.target)) =>
        LET r == ret.roll
            base == draws[2][3]
            crit == ret.crit_chance
            hit == ret.hit_chance
            graze == ret.graze_band
        IN  /\ r \in 1 .. 100
            /\ crit <= hit /\ hit <= hit + graze
            /\ r <= crit => ret.outcome = "crit" /\ ret.damage = base + call.weapon.spec.crit_bonus_damage
            /\ (crit < r /\ r <= hit) => ret.outcome = "hit" /\ ret.damage = base
            /\ (hit < r /\ r <= hit + graze) => ret.outcome = "graze"
            /\ hit + graze < r => ret.outcome = "miss" /\ ret.damage = 0

\* A crit of a shot whose crit, hit and graze intervals are all proper.
C4_Witness ==
    /\ call.fn = "resolve_shot"
    /\ ret.outcome = "crit"
    /\ 0 < ret.crit_chance /\ ret.crit_chance < ret.hit_chance
    /\ ret.graze_band > 0 /\ ret.hit_chance + ret.graze_band < 100

\* C5: a blocked shot asks the random source for nothing and returns "blocked"
\* with damage 0 and roll 0; a clear shot asks exactly twice, first for the roll
\* in [1, 100], then for the damage in [dmg_min, dmg_max], whatever the outcome.
C5_RandomDraws ==
    call.fn = "resolve_shot" =>
        IF ~los_clear(call.grid, call.shooter, call.target)
        THEN draws = <<>> /\ ret.outcome = "blocked" /\ ret.damage = 0 /\ ret.roll = 0
        ELSE /\ Len(draws) = 2
             /\ draws[1][1] = 1 /\ draws[1][2] = 100 /\ draws[1][3] = ret.roll
             /\ draws[2][1] = call.weapon.spec.dmg_min
             /\ draws[2][2] = call.weapon.spec.dmg_max
             /\ draws[2][3] \in call.weapon.spec.dmg_min .. call.weapon.spec.dmg_max

\* A miss: the damage was rolled all the same.
C5_Witness ==
    /\ call.fn = "resolve_shot"
    /\ ret.outcome = "miss"
    /\ Len(draws) = 2

\* C14: a graze deals max(1, round(rolled base x graze multiplier)) damage when
\* the rolled base damage is positive, and 0 damage when the rolled base is 0.
C14_GrazeMinimumOnlyIfPositive ==
    (call.fn = "resolve_shot" /\ ret.outcome = "graze") =>
        LET base == draws[2][3]
            mult == call.weapon.spec.graze_multiplier
        IN  ret.damage = IF base > 0
                         THEN Max(1, round_half_even(base * mult[1], mult[2]))
                         ELSE 0

\* C17: when the line of sight from shooter to target is not clear, compute_hit
\* returns total 0 with no terms and flanked false, preview_probabilities
\* returns hit, crit and graze 0 with the damage ranges of the weapon spec, and
\* resolve_shot returns "blocked" with damage 0.
C17_BlockedShortCircuits ==
    (call.fn = "resolve_shot" /\ ~los_clear(call.grid, call.shooter, call.target)) =>
        LET spec == call.weapon.spec
            pv == call.pv
        IN  /\ \A base_aim \in AimInputs, range_bands \in BandInputs :
                  LET bd == compute_hit(call.grid, call.shooter, call.target, base_aim, range_bands)
                  IN  bd.total = 0 /\ bd.terms = <<>> /\ ~bd.flanked /\ ~bd.los
            /\ ~pv.los
            /\ pv.hit_chance = 0 /\ pv.crit_chance = 0 /\ pv.graze_band = 0
            /\ pv.dmg_base_min = spec.dmg_min /\ pv.dmg_base_max = spec.dmg_max
            /\ pv.dmg_crit_min = spec.dmg_min + spec.crit_bonus_damage
            /\ pv.dmg_crit_max = spec.dmg_max + spec.crit_bonus_damage
            /\ pv.dmg_graze_min = Max(1, round_half_even(spec.dmg_min * spec.graze_multiplier[1],
                                                          spec.graze_multiplier[2]))
            /\ pv.dmg_graze_max = Max(1, round_half_even(spec.dmg_max * spec.graze_multiplier[1],
                                                          spec.graze_multiplier[2]))
            /\ ret.outcome = "blocked"
            /\ ret.damage = 0

\* A shot across an obstacle with the shotgun.
C17_Witness ==
    /\ call.fn = "resolve_shot"
    /\ call.grid.blocked # {}
    /\ call.weapon.spec = SHOTGUN
    /\ ~call.pv.los
    /\ ret.outcome = "blocked"

\* C18: with aim bonus 0, base crit 10, the default range bands and point-blank
\* crit bonus 15, a flanked target at distance 1 in clear line of sight has
\* hit_chance 95, crit_chance 45 and graze_band 5; roll 40 is a crit, 70 a hit,
\* 96 and 100 a graze, so no roll is a miss.  Whenever hit_chance + graze_band
\* is at least 100, no roll is a miss.
C18_PointBlankFlankNeverMisses ==
    call.fn = "resolve_shot" =>
        LET spec == call.weapon.spec
            pv == call.pv
        IN  /\ ( /\ spec.aim_bonus = 0 /\ spec.base_crit = 10
                  /\ spec.range_bands = None /\ spec.crit_point_blank_bonus = 15
                  /\ pv.los /\ pv.flanked /\ pv.distance2 = 1 )
                => /\ pv.hit_chance = 95 /\ pv.crit_chance = 45 /\ pv.graze_band = 5
                   /\ ret.roll = 40 => ret.outcome = "crit"
                   /\ ret.roll = 70 => ret.outcome = "hit"
                   /\ ret.roll = 96 => ret.outcome = "graze"
                   /\ ret.roll = 100 => ret.outcome = "graze"
                   /\ ret.outcome # "miss"
            /\ (pv.los /\ pv.hit_chance + pv.graze_band >= 100) => ret.outcome # "miss"

\* The worked shot with the highest roll.
C18_Witness ==
    /\ call.fn = "resolve_shot"
    /\ call.weapon.spec = DEFAULT_SPEC
    /\ call.pv.los /\ call.pv.flanked /\ call.pv.distance2 = 1
    /\ ret.roll = 100
    /\ ret.outcome = "graze"

(***************************************************************************)
(* Claims about Weapon (SpecWeapon).                                       *)
(***************************************************************************)
\* C16: a Weapon from make_weapon keeps 0 <= ammo <= mag_size through every
\* consume_round(n) with n >= 0 and every reload_full: consume_round(n) leaves
\* max(0, ammo - n), reload_full leaves the magazine size, and can_fire() is
\* true exactly when ammo > 0.
C16_AmmoWithinMagazine ==
    /\ 0 <= ret.weapon.ammo
    /\ ret.weapon.ammo <= ret.weapon.spec.mag_size
    /\ call.fn = "make_weapon" => ret.weapon.ammo = ret.weapon.spec.mag_size
    /\ call.fn = "consume_round" =>
          /\ ret.weapon.spec = call.before.spec
          /\ ret.weapon.ammo = IF call.n >= call.before.ammo THEN 0
                               ELSE call.before.ammo - call.n
    /\ call.fn = "reload_full" =>
          /\ ret.weapon.spec = call.before.spec
          /\ ret.weapon.ammo = call.before.spec.mag_size
    /\ call.fn = "can_fire" =>
          /\ ret.weapon = call.before
          /\ ret.value = (call.before.ammo > 0)

\* consume_round asked for more rounds than the magazine still holds.
C16_Witness ==
    /\ call.fn = "consume_round"
    /\ call.before.ammo > 0
    /\ call.n > call.before.ammo
    /\ ret.weapon.ammo = 0

(***************************************************************************)
(* Claims about compute_tile_cover (SpecCover).                            *)
(***************************************************************************)
\* The cardinal neighbour of a tile on a side.
CardinalOf(t, side) ==
    CASE side = "N" -> <<t[1], t[2] - 1>>
      [] side = "E" -> <<t[1] + 1, t[2]>>
      [] side = "S" -> <<t[1], t[2] + 1>>
      [] side = "W" -> <<t[1] - 1, t[2]>>

\* The two diagonal neighbours of a tile next to a side: the tiles that touch
\* the tile at a corner and the side's cardinal neighbour at an edge.
DiagonalsOf(t, side) ==
    {d \in (t[1] - 1 .. t[1] + 1) \X (t[2] - 1 .. t[2] + 1) :
        /\ d[1] # t[1]
        /\ d[2] # t[2]
        /\ Adjacent4(d, CardinalOf(t, side))}

\* C12: each side of a tile is "full" if its cardinal neighbour is blocked, or
\* is out of bounds while oob_is_full is set; otherwise "half" if one of the two
\* diagonal neighbours next to that side is blocked; otherwise "none". Four
\* blocked cardinal neighbours give full cover on every side, and an interior
\* tile with no blocked neighbour has none on every side.
C12_CoverPerSide ==
    call.fn = "compute_tile_cover" =>
        LET g == call.grid
            t == call.tile
            around == ((t[1] - 1 .. t[1] + 1) \X (t[2] - 1 .. t[2] + 1)) \ {t}
        IN  /\ DOMAIN ret = {"N", "E", "S", "W"}
            /\ \A side \in {"N", "E", "S", "W"} :
                  LET c == CardinalOf(t, side)
                      full == \/ c \in g.blocked
                              \/ c \notin Tiles(g) /\ call.oob_is_full
                      half == DiagonalsOf(t, side) \cap g.blocked # {}
                  IN  ret[side] = IF full THEN "full" ELSE IF half THEN "half" ELSE "none"
            /\ (\A side \in {"N", "E", "S", "W"} : CardinalOf(t, side) \in g.blocked)
                  => \A side \in {"N", "E", "S", "W"} : ret[side] = "full"
            /\ (around \subseteq Tiles(g) /\ around \cap g.blocked = {})
                  => \A side \in {"N", "E", "S", "W"} : ret[side] = "none"

\* A tile walled in on its four sides, with full cover all round.
C12_Witness ==
    /\ call.fn = "compute_tile_cover"
    /\ \A side \in {"N", "E", "S", "W"} : CardinalOf(call.tile, side) \in call.grid.blocked
    /\ \A side \in {"N", "E", "S", "W"} : ret[side] = "full"

(***************************************************************************)
(* Claims about los_clear and bresenham_line (SpecLos).                    *)
(***************************************************************************)
\* C11: los_clear(grid, a, b) is false exactly when some tile of the trace from
\* a to b other than a and b is not passable; toggling the obstacle on b itself
\* never changes the result, and los_clear(grid, a, a) is true.
C11_LosClearInterior ==
    call.fn = "los_clear" =>
        LET g == call.grid
            line == bresenham_line(call.a, call.b)
            inner == {line[i] : i \in 1 .. Len(line)} \ {call.a, call.b}
            other == Grid(g.cols, g.rows, toggle_obstacle(g, call.b[1], call.b[2]))
        IN  /\ ret.clear = (\A t \in inner : is_passable(g, t[1], t[2]))
            /\ ret.clear = los_clear(other, call.a, call.b)
            /\ call.a = call.b => ret.clear

\* A clear line of three tiles or more that ends on a blocked tile.
C11_Witness ==
    /\ call.fn = "los_clear"
    /\ call.b \in call.grid.blocked
    /\ Len(bresenham_line(call.a, call.b)) >= 3
    /\ ret.clear

\* C23: for every grid and every two passable tiles a and b, the line of sight
\* from a to b is clear exactly when the line of sight from b to a is.
C23_LosSymmetric ==
    ( /\ call.fn = "los_clear"
      /\ is_passable(call.grid, call.a[1], call.a[2])
      /\ is_passable(call.grid, call.b[1], call.b[2]) )
        => ret.clear = los_clear(call.grid, call.b, call.a)

C20_BresenhamFourConnected ==
    call.fn = "bresenham_line" =>
        \A i \in 1 .. Len(ret.line) - 1 : Adjacent4(ret.line[i], ret.line[i + 1])

(***************************************************************************)
(* Claims about facing_side (SpecHit).                                     *)
(***************************************************************************)
Dist2(a, b) == (a[1] - b[1]) * (a[1] - b[1]) + (a[2] - b[2]) * (a[2] - b[2])

\* C9: for from # to, facing_side(from, to) is the side of `to` nearest the
\* shooter: the tile adjacent to `to` on the returned side, which is the side
\* whose cover compute_hit reads, is closer to `from` than `to` itself is.
C9_FacingSideNearestShooter ==
    (call.fn = "compute_hit" /\ call.shooter # call.target) =>
        LET side == facing_side(call.shooter, call.target)
            adj == <<call.target[1] + DIRS[side][1], call.target[2] + DIRS[side][2]>>
        IN  Dist2(call.shooter, adj) < Dist2(call.shooter, call.target)

(***************************************************************************)
(* Claims about the tactical scene (Spec).                                 *)
(***************************************************************************)
TilesOf(path) == {path[i] : i \in 1 .. Len(path)}

C10_ObstacleInvalidatesPlan ==
    [][ /\ \A t \in TilesOf(planned_path) :
              (obstacle_edit /\ t \notin blocked /\ blocked' = blocked \cup {t})
                  => (planned_path' = <<>> \/ t \notin TilesOf(planned_path'))
        /\ (~is_moving(player) /\ is_moving(player'))
              => TilesOf(planned_path) \cap blocked = {} ]_vars

\* C15: after every handled event and every update tick the visible set is
\* compute_visible on the current blocked set from the player's current tile
\* with SIGHT_RADIUS_TILES.
C15_VisibleIsCurrent ==
    visible = compute_visible(SceneGrid(blocked), Pos(player), SIGHT_RADIUS_TILES)

\* The player has walked off the starting tile and an obstacle hides a tile
\* that was visible before.
C15_Witness ==
    /\ Pos(player) # PlayerStart
    /\ blocked # {}
    /\ visible # explored

C24_PlayerNeverOnBlocked ==
    Pos(player) \notin blocked

\* C25: when a confirmed plan starts the player moving, no tile of the path
\* handed to Player.start_move holds an enemy, and the player never occupies a
\* tile that holds an enemy.
C25_PathAvoidsEnemies ==
    [][ /\ (~is_moving(player) /\ is_moving(player'))
              => TilesOf(planned_path) \cap DOMAIN enemies = {}
        /\ Pos(player') \notin DOMAIN enemies' ]_vars

(***************************************************************************)
(* Claims about flood_fill and reconstruct_path (SpecPath).                *)
(***************************************************************************)
\* Reference notion, independent of the queue: the tiles some 4-connected walk
\* of at most k steps reaches from start, every tile after start being passable.
Grow(S, passable) == S \cup {n \in passable : \E t \in S : Adjacent4(t, n)}

RECURSIVE WithinSteps(_, _, _)
WithinSteps(start, passable, k) ==
    IF k = 0 THEN {start}
    ELSE Grow(WithinSteps(start, passable, k - 1), passable)

\* The least number of steps that reaches t; rings[k] is WithinSteps(.., k).
HopCount(rings, t) ==
    CHOOSE k \in DOMAIN rings : t \in rings[k] /\ \A j \in DOMAIN rings : j < k => t \notin rings[j]

Manhattan(a, b) == Abs(a[1] - b[1]) + Abs(a[2] - b[2])

\* C6: the cost map returned by flood_fill has as keys exactly the start and the
\* tiles reachable from it by a 4-connected path of passable tiles of at most
\* max_cost steps, each valued with the hop count of a shortest such path; no
\* cost exceeds max_cost, so nothing is added through a tile at max_cost.
C6_FloodFillShortest ==
    call.fn = "flood_fill" =>
        LET rings == [k \in 0 .. call.max_cost |-> WithinSteps(call.start, call.passable, k)]
            reach == rings[call.max_cost]
        IN  /\ DOMAIN ret.costs = reach
            /\ \A t \in reach :
                  /\ ret.costs[t] = HopCount(rings, t)
                  /\ ret.costs[t] <= call.max_cost

\* A fill that had to go round a wall: a recorded tile whose cost is larger than
\* its Manhattan distance from the start and equals max_cost.
C6_Witness ==
    /\ call.fn = "flood_fill"
    /\ \E t \in DOMAIN ret.costs :
          /\ ret.costs[t] > Manhattan(call.start, t)
          /\ ret.costs[t] = call.max_cost

\* C7: for (costs, parents) of one flood_fill and any c in costs, the path
\* reconstruct_path(c, parents) starts at the fill's start, ends at c, has
\* costs[c] + 1 tiles, and every two consecutive tiles are 4-adjacent.
C7_PathRoundTrip ==
    (call.fn = "reconstruct_path" /\ call.end \in DOMAIN call.costs) =>
        LET path == ret.path
        IN  /\ Len(path) = call.costs[call.end] + 1
            /\ path[1] = call.start
            /\ path[Len(path)] = call.end
            /\ \A i \in 1 .. Len(path) - 1 : Adjacent4(path[i], path[i + 1])

\* A reconstructed path of four steps that is longer than the straight distance.
C7_Witness ==
    /\ call.fn = "reconstruct_path"
    /\ call.end \in DOMAIN call.costs
    /\ Len(ret.path) = 5
    /\ Manhattan(call.start, call.end) < 4

\* C21: reconstruct_path returns the empty list when end has no entry in the
\* parent map and is not the start.
C21_NoPathIsEmpty ==
    ( /\ call.fn = "reconstruct_path"
      /\ call.end \notin DOMAIN call.parents
      /\ call.end # call.start )
        => ret.path = <<>>

(***************************************************************************)
(* Claims about FixedClock (SpecClock).                                    *)
(***************************************************************************)
\* C22: every tick() returns steps in 0..MAX_STEPS and alpha in [0, 1): the
\* accumulator left after the step loop is at least 0 and below FIXED_DT.
C22_TickAlphaBelowOne ==
    call.fn = "tick" =>
        /\ ret.steps \in 0 .. MAX_STEPS
        /\ 0 <= ret.accumulator
        /\ ret.accumulator < FIXED_DT

(***************************************************************************)
(* Claims about the turn's actions and the confirmed move (Spec).          *)
(***************************************************************************)
\* C26: actions_remaining stays in 0..ACTIONS_PER_TURN; a step lowers it only
\* while the player is selected and at rest with a plan, by the plan's action
\* cost, which does not exceed what remained; a step raises it only to
\* ACTIONS_PER_TURN.
C26_ActionsWithinTurn ==
    [][ /\ player.actions_remaining \in 0 .. ACTIONS_PER_TURN
        /\ player'.actions_remaining \in 0 .. ACTIONS_PER_TURN
        /\ player'.actions_remaining < player.actions_remaining
              => /\ ~is_moving(player)
                 /\ selected
                 /\ planned_path # <<>>
                 /\ planned_actions <= player.actions_remaining
                 /\ player'.actions_remaining = player.actions_remaining - planned_actions
        /\ player'.actions_remaining > player.actions_remaining
              => player' = [player EXCEPT !.actions_remaining = ACTIONS_PER_TURN] ]_vars

\* The second confirmed plan of a turn has spent the last action and the player
\* is on its way.
C26_Witness ==
    /\ player.actions_remaining = 0
    /\ is_moving(player)
    /\ planned_path # <<>>
    /\ planned_actions = 1

\* The tiles still ahead of a moving player: the tile it is heading for, then
\* its queue.
Route(p) == IF is_moving(p) THEN <<p.move_to>> \o p.move_queue ELSE <<>>

\* One step of a confirmed move: a move starts on the first tile of the plan's
\* path of two or more tiles with the rest of the path ahead; a moving player
\* either stays or steps onto the next tile ahead, and when nothing is left
\* ahead the plan is cleared; a player at rest stays on its tile.
C27_Step ==
    /\ (~is_moving(player) /\ is_moving(player'))
          => /\ Len(planned_path) >= 2
             /\ Pos(player') = planned_path[1]
             /\ Route(player') = Tail(planned_path)
    /\ is_moving(player)
          => \/ /\ Pos(player') = Pos(player)
                /\ Route(player') = Route(player)
             \/ /\ Pos(player') = Head(Route(player))
                /\ Route(player') = Tail(Route(player))
                /\ ~is_moving(player') => planned_path' = <<>>
    /\ (~is_moving(player) /\ ~is_moving(player')) => Pos(player') = Pos(player)

\* C27: a confirmed move walks the plan's path tile by tile, at most one tile
\* per step, ends on the path's last tile with the plan cleared, and, as long
\* as updates keep coming, a moving player eventually comes to rest.
C27_ConfirmedMoveCompletes ==
    /\ [][C27_Step]_vars
    /\ is_moving(player) ~> (~is_moving(player) \/ crashed)

\* The player has walked a confirmed path to the tile two to the right of its
\* start and rests there with the plan cleared.
C27_Witness ==
    /\ ~is_moving(player)
    /\ Pos(player) = <<2, 0>>
    /\ player.actions_remaining < ACTIONS_PER_TURN
    /\ planned_path = <<>>

\* C28: a press of F with a visible enemy under the cursor completes normally:
\* the step does not end in an uncaught error.
C28_FiringCompletesNormally ==
    [][ \A tile \in MouseTiles :
            (tile \in DOMAIN enemies /\ tile \in visible /\ KeyF(tile)) => ~crashed' ]_vars

====
